---- MODULE Spec2Model ----
(***************************************************************************)
(* A model of server/index.js of crypto-trade-router: the lot adjustment   *)
(* (adjustBuyCoin and the min-step adjustment of /trade), the route        *)
(* evaluation (getBestRoute), the live recomputation of a route over two   *)
(* order-book feeds (the socket handlers) and the two-leg trade with its   *)
(* settlement and savings (POST /trade).                                   *)
(*                                                                         *)
(* JavaScript numbers are modelled as exact rationals <<n, d>> (d > 0, in  *)
(* lowest terms) extended with the three values an IEEE division or        *)
(* remainder can produce besides: <<1, 0>> is Infinity, <<-1, 0>> is       *)
(* -Infinity and <<0, 0>> is NaN.  Rounding of the binary representation   *)
(* is not modelled.                                                        *)
(***************************************************************************)
EXTENDS Integers, Sequences, FiniteSets, TLC

VARIABLES
    \* adjustBuyCoin / the min-step adjustment of /trade
    buyCoinArg,        \* the buyCoin object handed to adjustBuyCoin
    adjustedBuyCoin,   \* what adjustBuyCoin returned, NoValue before the call
    quantityToBuy,     \* /trade's quantityToBuy, NoValue before it is computed
    \* getBestRoute, called from the socket handler 'getBestRoute'
    bridgeCoins,       \* the request's bridgeCoins, a sequence of coin names
    sharesEntered,     \* the request's sharesEntered
    routePc,           \* where the call is: idle, mapping, minSteps, done, rejected
    mapperState,       \* per candidate: pending, ok, failed
    fetched,           \* per candidate: the order books its fetches returned
    possibleRoutes,    \* Promise.map's result array, filled as mappers finish
    completed,         \* the candidates in the order their mappers finished
    sortedRoutes,      \* possibleRoutes after the sort
    bestRouteResult,   \* the adjustedBestRoute that is returned
    routeError,        \* why the call was rejected
    routeEmitted,      \* what the socket handler emitted to the caller
    \* the live sessions: connections, subscribeToOrders and the feeds
    socketState,       \* per socket: none, connected, disconnected
    SHARES_FOR_ORDER_UPDATES, \* per connection
    sessions,          \* per socket: the closure of its subscribeToOrders call
    emitted,           \* the events the last handler run emitted
    lastOp,            \* the handler that ran last, and its input
    \* app.post('/trade')
    tradeReq,          \* the request body, NoValue before the request
    tradePc,           \* where the handler is: idle, routing, minSteps, selling,
                       \* buying, bestPrice, worstPrice, responded
    tradeLocals,       \* the handler's local variables
    ordersPlaced,      \* the market orders sent to the exchange, in order
    priceLookups,      \* the symbols getPriceBinance was called with, in order
    tradeResponse      \* what was sent on res, NoValue before

adjustVars == <<buyCoinArg, adjustedBuyCoin, quantityToBuy>>
routeVars == <<bridgeCoins, sharesEntered, routePc, mapperState, fetched,
               possibleRoutes, completed, sortedRoutes, bestRouteResult,
               routeError, routeEmitted>>
liveVars == <<socketState, SHARES_FOR_ORDER_UPDATES, sessions, emitted, lastOp>>
tradeVars == <<tradeReq, tradePc, tradeLocals, ordersPlaced, priceLookups, tradeResponse>>
vars == <<adjustVars, routeVars, liveVars, tradeVars>>

\* an optional value: <<>> before it exists, <<v>> once it is v
NoValue == <<>>

Some(v) == <<v>>

(***************************************************************************)
(* Bounds of the model.                                                    *)
(***************************************************************************)
MaxPrice == 3       \* averageBuyPrice ranges over 1..MaxPrice
MaxAmount == 6      \* amountBuyable ranges over 0..MaxAmount
MaxStepNum == 4     \* minStep ranges over k/StepDen, k in 0..MaxStepNum
StepDen == 2
MaxBridge == 2      \* bridgeCoins holds at most MaxBridge candidates
MaxShares == 2      \* an entered quantity ranges over 0..MaxShares

(***************************************************************************)
(* JavaScript numbers.                                                     *)
(***************************************************************************)
Abs(x) == IF x < 0 THEN -x ELSE x

Sgn(x) == IF x < 0 THEN -1 ELSE IF x > 0 THEN 1 ELSE 0

RECURSIVE GCD(_, _)
GCD(a, b) == IF b = 0 THEN a ELSE GCD(b, a % b)

\* the number n/d; d = 0 gives Infinity, -Infinity or NaN by the sign of n
Num(n, d) ==
    IF d = 0 THEN <<Sgn(n), 0>>
    ELSE LET g == GCD(Abs(n), Abs(d))
             s == IF d < 0 THEN -1 ELSE 1
         IN  <<(s * n) \div g, (s * d) \div g>>

Whole(k) == <<k, 1>>
Zero == <<0, 1>>
NaN == <<0, 0>>
Infinity == <<1, 0>>

IsNaN(a) == a = NaN
IsFinite(a) == a[2] # 0

Neg(a) == <<-a[1], a[2]>>

\* a * b, the common factors divided out before the products are taken
Mul(a, b) ==
    IF a[2] = 0 \/ b[2] = 0 THEN Num(Sgn(a[1]) * Sgn(b[1]), 0)
    ELSE LET g1 == GCD(Abs(a[1]), b[2])
             g2 == GCD(Abs(b[1]), a[2])
         IN  Num((a[1] \div g1) * (b[1] \div g2), (a[2] \div g2) * (b[2] \div g1))

Div(a, b) == Mul(a, Num(b[2], b[1]))

\* a + b, over the least common denominator
Add(a, b) ==
    IF a[2] = 0 /\ b[2] = 0 THEN (IF a = b THEN a ELSE NaN)
    ELSE IF a[2] = 0 THEN a
    ELSE IF b[2] = 0 THEN b
    ELSE LET g == GCD(a[2], b[2])
         IN  Num(a[1] * (b[2] \div g) + b[1] * (a[2] \div g), (a[2] \div g) * b[2])

Sub(a, b) == Add(a, Neg(b))

\* a < b; false when either is NaN
Lt(a, b) ==
    IF IsNaN(a) \/ IsNaN(b) THEN FALSE
    ELSE IF a[2] = 0 /\ b[2] = 0 THEN a[1] < b[1]
    ELSE IF a[2] = 0 THEN a[1] < 0
    ELSE IF b[2] = 0 THEN 0 < b[1]
    ELSE LET g == GCD(a[2], b[2])
         IN  a[1] * (b[2] \div g) < b[1] * (a[2] \div g)

Le(a, b) == Lt(a, b) \/ (~IsNaN(a) /\ a = b)

\* a !== b
StrictNeq(a, b) == IsNaN(a) \/ IsNaN(b) \/ a # b

\* the integer part of x/y, y > 0, rounded towards zero
TruncDiv(x, y) == Sgn(x) * (Abs(x) \div y)

\* a % b: the remainder has the sign of the dividend; NaN for a zero divisor
Rem(a, b) ==
    IF ~IsFinite(a) \/ IsNaN(b) \/ b = Zero THEN NaN
    ELSE IF ~IsFinite(b) THEN a
    ELSE LET q == TruncDiv(a[1] * b[2], a[2] * Abs(b[1]))
         IN  Sub(a, Mul(Whole(q), <<Abs(b[1]), b[2]>>))

IsInteger(a) == a[2] = 1

(***************************************************************************)
(* adjustBuyCoin and the min-step adjustment in /trade.                    *)
(***************************************************************************)
\* a mutant: the unusable amount is found by rounding the amount, not the shares
adjustBuyCoinAmountRounded(buyCoin) ==
    LET sharesBuyable == Div(buyCoin.amountBuyable, buyCoin.averageBuyPrice)
        unBuyableShares == Rem(sharesBuyable, buyCoin.minStep)
        actualSharesBuyable == Sub(sharesBuyable, unBuyableShares)
        actualAmountBuyable ==
            Sub(buyCoin.amountBuyable, Rem(buyCoin.amountBuyable, buyCoin.minStep))
        leftOver == Sub(buyCoin.amountBuyable, actualAmountBuyable)
    IN  [f \in DOMAIN buyCoin \cup {"sharesBuyable", "amountBuyable", "leftOver"} |->
            CASE f = "sharesBuyable" -> actualSharesBuyable
              [] f = "amountBuyable" -> actualAmountBuyable
              [] f = "leftOver" -> leftOver
              [] OTHER -> buyCoin[f]]

adjustBuyCoin(buyCoin) ==
    LET sharesBuyable == Div(buyCoin.amountBuyable, buyCoin.averageBuyPrice)
        unBuyableShares == Rem(sharesBuyable, buyCoin.minStep)
        actualSharesBuyable == Sub(sharesBuyable, unBuyableShares)
        actualAmountBuyable ==
            Sub(buyCoin.amountBuyable, Mul(unBuyableShares, buyCoin.averageBuyPrice))
        leftOver == Sub(buyCoin.amountBuyable, actualAmountBuyable)
    IN  [f \in DOMAIN buyCoin \cup {"sharesBuyable", "amountBuyable", "leftOver"} |->
            CASE f = "sharesBuyable" -> actualSharesBuyable
              [] f = "amountBuyable" -> actualAmountBuyable
              [] f = "leftOver" -> leftOver
              [] OTHER -> buyCoin[f]]

\* /trade: const unBuyableShares = sharesBuyable % buyCoinMinStep; ...
tradeQuantityToBuy(sharesBuyable, buyCoinMinStep) ==
    LET unBuyableShares == Rem(sharesBuyable, buyCoinMinStep)
        actualSharesBuyable == Sub(sharesBuyable, unBuyableShares)
    IN  actualSharesBuyable

BuyCoinArgs ==
    [averageBuyPrice : {Whole(p) : p \in 1..MaxPrice},
     minStep : {Num(k, StepDen) : k \in 0..MaxStepNum},
     amountBuyable : {Whole(a) : a \in 0..MaxAmount}]

\* the quantity the buy leg can buy before the adjustment
BuyableQuantity(buyCoin) == Div(buyCoin.amountBuyable, buyCoin.averageBuyPrice)

CallAdjustBuyCoin ==
    /\ adjustedBuyCoin = NoValue
    /\ adjustedBuyCoin' = Some(adjustBuyCoin(buyCoinArg))
    /\ UNCHANGED <<buyCoinArg, quantityToBuy, routeVars, liveVars, tradeVars>>

TradeAdjustQuantity ==
    /\ quantityToBuy = NoValue
    /\ quantityToBuy' =
         Some(tradeQuantityToBuy(BuyableQuantity(buyCoinArg), buyCoinArg.minStep))
    /\ UNCHANGED <<buyCoinArg, adjustedBuyCoin, routeVars, liveVars, tradeVars>>

(***************************************************************************)
(* The order books the exchange can return.  A level is <<price, quantity>>; *)
(* bids are listed best (highest) first, asks best (lowest) first.          *)
(***************************************************************************)
BidBooks == {<<>>, <<<<10, 1>>>>, <<<<10, 1>>, <<9, 4>>>>, <<<<12, 5>>>>}

AskBooks == {<<>>, <<<<5, 1>>, <<6, 10>>>>, <<<<4, 10>>>>}

MinSteps == {Num(k, StepDen) : k \in 0..MaxStepNum}

StepsObjs == [sellCoin : [minStep : MinSteps], buyCoin : [minStep : MinSteps]]

\* the bridge coins a request is drawn from, and the pair it trades
AllBridgeCoins == <<"USDT", "BTC", "ETH", "BNB">>

SellCoinName == "XRP"

BuyCoinName == "NEO"

(***************************************************************************)
(* calculateSellData and calculateBuyData (server/binance.js): walk the    *)
(* levels best first, taking each level whole before the next, until the   *)
(* target or the book is exhausted.  An average over a zero quantity is a  *)
(* domain error.                                                           *)
(***************************************************************************)
RECURSIVE SellWalk(_, _, _, _)
SellWalk(bids, remaining, sold, total) ==
    IF bids = <<>> \/ ~Lt(Zero, remaining)
    THEN [sharesSellable |-> sold, saleTotal |-> total]
    ELSE LET price == Whole(Head(bids)[1])
             qty == Whole(Head(bids)[2])
             take == IF Lt(remaining, qty) THEN remaining ELSE qty
         IN  SellWalk(Tail(bids), Sub(remaining, take), Add(sold, take),
                      Add(total, Mul(take, price)))

calculateSellData(bids, shares) ==
    LET w == SellWalk(bids, shares, Zero, Zero)
    IN  IF w.sharesSellable = Zero
        THEN [error |-> "DivisionByZero", sharesSellable |-> Zero,
              averageSellPrice |-> NaN, saleTotal |-> Zero]
        ELSE [error |-> "none", sharesSellable |-> w.sharesSellable,
              averageSellPrice |-> Div(w.saleTotal, w.sharesSellable),
              saleTotal |-> w.saleTotal]

RECURSIVE BuyWalk(_, _, _, _)
BuyWalk(asks, remaining, bought, spent) ==
    IF asks = <<>> \/ ~Lt(Zero, remaining)
    THEN [sharesPossibleToBuy |-> bought, amountSpent |-> spent]
    ELSE LET price == Whole(Head(asks)[1])
             qty == Whole(Head(asks)[2])
             cost == Mul(price, qty)
         IN  IF Lt(remaining, cost)
             THEN [sharesPossibleToBuy |-> Add(bought, Div(remaining, price)),
                   amountSpent |-> Add(spent, remaining)]
             ELSE BuyWalk(Tail(asks), Sub(remaining, cost), Add(bought, qty),
                          Add(spent, cost))

calculateBuyData(asks, buyAmount) ==
    LET w == BuyWalk(asks, buyAmount, Zero, Zero)
    IN  IF w.sharesPossibleToBuy = Zero
        THEN [error |-> "DivisionByZero", amountSpent |-> Zero,
              sharesPossibleToBuy |-> Zero, averageBuyPrice |-> NaN]
        ELSE [error |-> "none", amountSpent |-> w.amountSpent,
              sharesPossibleToBuy |-> w.sharesPossibleToBuy,
              averageBuyPrice |-> Div(w.amountSpent, w.sharesPossibleToBuy)]

(***************************************************************************)
(* getBestRoute.                                                           *)
(***************************************************************************)
\* a mutant: the buy leg is sized by the entered quantity, not by the sale total
evaluateCandidateFixedBudget(baseCoin, orders, shares) ==
    LET sell == calculateSellData(orders.sellCoinBids, shares)
        buy == calculateBuyData(orders.buyCoinAsks, shares)
    IN  IF sell.error # "none" THEN [error |-> sell.error]
        ELSE IF buy.error # "none" THEN [error |-> buy.error]
        ELSE [error |-> "none",
              sellCoin |-> [market |-> SellCoinName \o baseCoin,
                            averageSellPrice |-> sell.averageSellPrice,
                            sharesSellable |-> sell.sharesSellable],
              buyCoin |-> [market |-> BuyCoinName \o baseCoin,
                           amountBuyable |-> buy.amountSpent,
                           sharesBuyable |-> buy.sharesPossibleToBuy,
                           averageBuyPrice |-> buy.averageBuyPrice],
              baseCoin |-> [name |-> baseCoin, market |-> baseCoin \o "USDT"],
              ratio |-> Div(sell.averageSellPrice, buy.averageBuyPrice)]

\* the mapper of Promise.map, after its two fetches returned orders: the route
\* of one bridge coin, or the error a simulation raised
evaluateCandidate(baseCoin, orders, shares) ==
    LET sell == calculateSellData(orders.sellCoinBids, shares)
        buy == calculateBuyData(orders.buyCoinAsks, sell.saleTotal)
    IN  IF sell.error # "none" THEN [error |-> sell.error]
        ELSE IF buy.error # "none" THEN [error |-> buy.error]
        ELSE [error |-> "none",
              sellCoin |-> [market |-> SellCoinName \o baseCoin,
                            averageSellPrice |-> sell.averageSellPrice,
                            sharesSellable |-> sell.sharesSellable],
              buyCoin |-> [market |-> BuyCoinName \o baseCoin,
                           amountBuyable |-> buy.amountSpent,
                           sharesBuyable |-> buy.sharesPossibleToBuy,
                           averageBuyPrice |-> buy.averageBuyPrice],
              baseCoin |-> [name |-> baseCoin, market |-> baseCoin \o "USDT"],
              ratio |-> Div(sell.averageSellPrice, buy.averageBuyPrice)]

\* a mutant: the routes are ranked by ratio alone
compareRoutesByRatioOnly(route1, route2) == Sub(route2.ratio, route1.ratio)

\* the comparator handed to sort
compareRoutes(route1, route2) ==
    IF StrictNeq(route1.sellCoin.sharesSellable, route2.sellCoin.sharesSellable)
    THEN Sub(route2.sellCoin.sharesSellable, route1.sellCoin.sharesSellable)
    ELSE Sub(route2.ratio, route1.ratio)

\* Array.prototype.sort: a stable sort; a comparator result that is not
\* positive (NaN included) leaves the two elements in their order
RECURSIVE InsertRoute(_, _)
InsertRoute(sorted, r) ==
    IF sorted = <<>> THEN <<r>>
    ELSE LET last == sorted[Len(sorted)]
         IN  IF Lt(Zero, compareRoutes(last, r))
             THEN Append(InsertRoute(SubSeq(sorted, 1, Len(sorted) - 1), r), last)
             ELSE Append(sorted, r)

RECURSIVE SortRoutes(_)
SortRoutes(routes) ==
    IF routes = <<>> THEN <<>>
    ELSE InsertRoute(SortRoutes(SubSeq(routes, 1, Len(routes) - 1)),
                     routes[Len(routes)])

\* a mutant: the result array is filled in the order the mappers finish
storeRouteInCompletionOrder(routes, i, r) ==
    LET free == {j \in 1..Len(routes) : routes[j] = NoValue}
        first == CHOOSE j \in free : \A k \in free : j <= k
    IN  [routes EXCEPT ![first] = Some(r)]

\* Promise.map keeps each mapper's result at the index of its input
storeRoute(routes, i, r) == [routes EXCEPT ![i] = Some(r)]

\* lines 146-170: the best route with its min steps, the adjusted buy leg and
\* the summary of the worst route
adjustedBestRouteOf(sorted, stepsObj) ==
    LET bestRoute == sorted[1]
        withSteps == [bestRoute EXCEPT
            !.sellCoin = [f \in DOMAIN bestRoute.sellCoin \cup {"minStep"} |->
                            IF f = "minStep" THEN stepsObj.sellCoin.minStep
                            ELSE bestRoute.sellCoin[f]],
            !.buyCoin = [f \in DOMAIN bestRoute.buyCoin \cup {"minStep"} |->
                            IF f = "minStep" THEN stepsObj.buyCoin.minStep
                            ELSE bestRoute.buyCoin[f]]]
        worstRoute == sorted[Len(sorted)]
    IN  [error |-> "none",
         sellCoin |-> withSteps.sellCoin,
         buyCoin |-> adjustBuyCoin(withSteps.buyCoin),
         baseCoin |-> withSteps.baseCoin,
         ratio |-> withSteps.ratio,
         worstRoute |-> [sharesBuyable |-> worstRoute.buyCoin.sharesBuyable,
                         baseCoin |-> worstRoute.baseCoin.name,
                         averageSellPrice |-> worstRoute.sellCoin.averageSellPrice,
                         averageBuyPrice |-> worstRoute.buyCoin.averageBuyPrice]]

Candidates == 1..Len(bridgeCoins)

\* socket.on('getBestRoute') calls getBestRoute: Promise.map starts the mapper
\* of every bridge coin, and each mapper starts its two fetches
CallGetBestRoute(n, shares) ==
    /\ routePc = "idle"
    /\ bridgeCoins' = SubSeq(AllBridgeCoins, 1, n)
    /\ sharesEntered' = Whole(shares)
    /\ routePc' = "mapping"
    /\ mapperState' = [i \in 1..n |-> "pending"]
    /\ fetched' = [i \in 1..n |-> NoValue]
    /\ possibleRoutes' = [i \in 1..n |-> NoValue]
    /\ UNCHANGED <<completed, sortedRoutes, bestRouteResult, routeError, routeEmitted>>
    /\ UNCHANGED <<adjustVars, liveVars, tradeVars>>

\* both fetches of candidate i returned; its mapper computes the route.  A
\* rejected Promise.map stays rejected, whatever the other mappers do later
MapperFetchesResolve(i, orders) ==
    /\ routePc \in {"mapping", "rejected"}
    /\ mapperState[i] = "pending"
    /\ LET route == evaluateCandidate(bridgeCoins[i], orders, sharesEntered)
       IN  /\ fetched' = [fetched EXCEPT ![i] = Some(orders)]
           /\ completed' = Append(completed, i)
           /\ IF route.error = "none"
              THEN /\ mapperState' = [mapperState EXCEPT ![i] = "ok"]
                   /\ possibleRoutes' =
                        IF routePc = "mapping" THEN storeRoute(possibleRoutes, i, route)
                        ELSE possibleRoutes
                   /\ UNCHANGED <<routePc, routeError>>
              ELSE /\ mapperState' = [mapperState EXCEPT ![i] = "failed"]
                   /\ routePc' = "rejected"
                   /\ routeError' = IF routePc = "mapping" THEN route.error ELSE routeError
                   /\ UNCHANGED possibleRoutes
    /\ UNCHANGED <<bridgeCoins, sharesEntered, sortedRoutes, bestRouteResult, routeEmitted>>
    /\ UNCHANGED <<adjustVars, liveVars, tradeVars>>

\* a fetch of candidate i failed: Promise.all, the mapper and Promise.map reject
MapperFetchFails(i) ==
    /\ routePc \in {"mapping", "rejected"}
    /\ mapperState[i] = "pending"
    /\ mapperState' = [mapperState EXCEPT ![i] = "failed"]
    /\ completed' = Append(completed, i)
    /\ routePc' = "rejected"
    /\ routeError' = IF routePc = "mapping" THEN "MarketUnavailable" ELSE routeError
    /\ UNCHANGED <<bridgeCoins, sharesEntered, fetched, possibleRoutes, sortedRoutes,
                   bestRouteResult, routeEmitted>>
    /\ UNCHANGED <<adjustVars, liveVars, tradeVars>>

\* every mapper resolved: getBestRoute resumes after the await, sorts, and calls
\* addBinanceMinSteps(sortedRoutes[0]), which throws on undefined
SortAndPickBest ==
    /\ routePc = "mapping"
    /\ \A i \in Candidates : mapperState[i] = "ok"
    /\ sortedRoutes' = SortRoutes([i \in Candidates |-> possibleRoutes[i][1]])
    /\ IF bridgeCoins = <<>>
       THEN routePc' = "rejected" /\ routeError' = "TypeError"
       ELSE routePc' = "minSteps" /\ UNCHANGED routeError
    /\ UNCHANGED <<bridgeCoins, sharesEntered, mapperState, fetched, possibleRoutes,
                   completed, bestRouteResult, routeEmitted>>
    /\ UNCHANGED <<adjustVars, liveVars, tradeVars>>

\* getMinStepsBinance returned: the adjusted best route is returned and the
\* socket handler emits it
MinStepsResolve(stepsObj) ==
    /\ routePc = "minSteps"
    /\ bestRouteResult' = Some(adjustedBestRouteOf(sortedRoutes, stepsObj))
    /\ routeEmitted' = bestRouteResult'
    /\ routePc' = "done"
    /\ UNCHANGED <<bridgeCoins, sharesEntered, mapperState, fetched, possibleRoutes,
                   completed, sortedRoutes, routeError>>
    /\ UNCHANGED <<adjustVars, liveVars, tradeVars>>

\* getMinStepsBinance failed: getBestRoute rejects, the handler emits nothing
MinStepsReject ==
    /\ routePc = "minSteps"
    /\ routePc' = "rejected"
    /\ routeError' = "MinStepsUnavailable"
    /\ UNCHANGED <<bridgeCoins, sharesEntered, mapperState, fetched, possibleRoutes,
                   completed, sortedRoutes, bestRouteResult, routeEmitted>>
    /\ UNCHANGED <<adjustVars, liveVars, tradeVars>>

(***************************************************************************)
(* The live sessions: io.on('connection') and its handlers.                *)
(***************************************************************************)
\* the client connections of a run
Sockets == {"c1", "c2"}

\* the order books a feed of the sell market and of the buy market delivers
\* (a book with both sides, or with one side empty)
SellMarketOrders ==
    [bids : BidBooks, asks : {<<<<11, 3>>>>}] \cup {[bids |-> <<<<10, 1>>>>, asks |-> <<>>]}

BuyMarketOrders ==
    [bids : {<<<<3, 2>>>>}, asks : AskBooks] \cup {[bids |-> <<>>, asks |-> <<<<4, 10>>>>]}

\* the buyCoin of a subscribeToOrders message
SessionBuyCoin == [market |-> BuyCoinName \o "BTC", minStep |-> Num(1, StepDen)]

SessionSellMarket == SellCoinName \o "BTC"

\* io.sockets: the sockets that io.sockets.emit reaches
ConnectedSockets == {c \in Sockets : socketState[c] = "connected"}

HasSession(c) == sessions[c] # NoValue

\* the feed handlers of c's session are registered with the exchange feeds
FeedsLive(c) == HasSession(c) /\ sessions[c][1].subscribed

\* shares: SHARES_FOR_ORDER_UPDATES of the connection, as the sell leg reads it
sellLegShares(shares, c) == shares[c]

\* a mutant: saleProceeds is one variable shared by all sessions
buyLegAmountShared(sess, c) ==
    IF sess["c1"] # NoValue THEN sess["c1"][1].saleProceeds ELSE sess[c][1].saleProceeds

\* buyAmount: saleProceeds of the session, as the buy leg reads it
buyLegAmount(sess, c) == sess[c][1].saleProceeds

\* the feed callback of the sell market (lines 480-504): what it leaves in
\* saleProceeds, what it emits and what it throws
sellLegUpdate(saleProceeds, shares, sellCoinOrders) ==
    LET sell == calculateSellData(sellCoinOrders.bids, shares)
    IN  IF sell.error # "none"
        THEN [threw |-> sell.error, saleProceeds |-> saleProceeds, events |-> <<>>]
        ELSE IF sellCoinOrders.bids = <<>> \/ sellCoinOrders.asks = <<>>
        THEN [threw |-> "TypeError", saleProceeds |-> sell.saleTotal, events |-> <<>>]
        ELSE [threw |-> "none", saleProceeds |-> sell.saleTotal,
              events |-> <<[event |-> "updateSellCoinInfo",
                            info |-> [market |-> SessionSellMarket,
                                      bid |-> Whole(sellCoinOrders.bids[1][1]),
                                      ask |-> Whole(sellCoinOrders.asks[1][1]),
                                      averageSellPrice |-> sell.averageSellPrice,
                                      sharesSellable |-> sell.sharesSellable]]>>]

\* the feed callback of the buy market (lines 508-534)
buyLegUpdate(buyCoin, buyAmount, buyCoinOrders) ==
    LET buy == calculateBuyData(buyCoinOrders.asks, buyAmount)
    IN  IF buy.error # "none" THEN [threw |-> buy.error, events |-> <<>>]
        ELSE IF buyCoinOrders.bids = <<>> \/ buyCoinOrders.asks = <<>>
        THEN [threw |-> "TypeError", events |-> <<>>]
        ELSE [threw |-> "none",
              events |-> <<[event |-> "updateBuyCoinInfo",
                            info |-> adjustBuyCoin(
                                [market |-> buyCoin.market,
                                 minStep |-> buyCoin.minStep,
                                 bid |-> Whole(buyCoinOrders.bids[1][1]),
                                 ask |-> Whole(buyCoinOrders.asks[1][1]),
                                 averageBuyPrice |-> buy.averageBuyPrice,
                                 amountBuyable |-> buy.amountSpent])]>>]

\* io.sockets.emit: every connected socket receives the events
Broadcast(events, c) ==
    [i \in 1..Len(events) |->
        [event |-> events[i].event, info |-> events[i].info,
         session |-> c, to |-> ConnectedSockets]]

\* io.on('connection'): a new socket, its SHARES_FOR_ORDER_UPDATES is 0
Connect(c) ==
    /\ socketState[c] = "none"
    /\ socketState' = [socketState EXCEPT ![c] = "connected"]
    /\ SHARES_FOR_ORDER_UPDATES' = [SHARES_FOR_ORDER_UPDATES EXCEPT ![c] = Zero]
    /\ emitted' = <<>>
    /\ lastOp' = [op |-> "connection", socket |-> c]
    /\ UNCHANGED sessions
    /\ UNCHANGED <<adjustVars, routeVars, tradeVars>>

\* socket.on('subscribeToOrders'): saleProceeds = 0 and the two feed callbacks
\* are registered.  A socket subscribes again only once its feeds were terminated
SubscribeToOrders(c) ==
    /\ socketState[c] = "connected"
    /\ ~FeedsLive(c)
    /\ sessions' = [sessions EXCEPT ![c] =
            Some([buyCoin |-> SessionBuyCoin, saleProceeds |-> Zero, subscribed |-> TRUE])]
    /\ emitted' = <<>>
    /\ lastOp' = [op |-> "subscribeToOrders", socket |-> c]
    /\ UNCHANGED <<socketState, SHARES_FOR_ORDER_UPDATES>>
    /\ UNCHANGED <<adjustVars, routeVars, tradeVars>>

\* a mutant: the new quantity also discards the cached sale total
SharesUpdatedDiscardsCache(c, shares) ==
    /\ socketState[c] = "connected"
    /\ SHARES_FOR_ORDER_UPDATES' = [SHARES_FOR_ORDER_UPDATES EXCEPT ![c] = Whole(shares)]
    /\ sessions' = [sessions EXCEPT ![c] =
            IF HasSession(c) THEN Some([sessions[c][1] EXCEPT !.saleProceeds = Zero])
            ELSE NoValue]
    /\ emitted' = <<>>
    /\ lastOp' = [op |-> "sharesUpdated", socket |-> c, shares |-> Whole(shares)]
    /\ UNCHANGED socketState
    /\ UNCHANGED <<adjustVars, routeVars, tradeVars>>

\* socket.on('sharesUpdated')
SharesUpdated(c, shares) ==
    /\ socketState[c] = "connected"
    /\ SHARES_FOR_ORDER_UPDATES' = [SHARES_FOR_ORDER_UPDATES EXCEPT ![c] = Whole(shares)]
    /\ emitted' = <<>>
    /\ lastOp' = [op |-> "sharesUpdated", socket |-> c, shares |-> Whole(shares)]
    /\ UNCHANGED <<socketState, sessions>>
    /\ UNCHANGED <<adjustVars, routeVars, tradeVars>>

\* the sell market's feed delivers an order book to the callback of c's session
SellFeedUpdate(c, sellCoinOrders) ==
    /\ FeedsLive(c)
    /\ LET run == sellLegUpdate(sessions[c][1].saleProceeds,
                                sellLegShares(SHARES_FOR_ORDER_UPDATES, c),
                                sellCoinOrders)
       IN  /\ sessions' = [sessions EXCEPT ![c] =
                    Some([sessions[c][1] EXCEPT !.saleProceeds = run.saleProceeds])]
           /\ emitted' = Broadcast(run.events, c)
           /\ lastOp' = [op |-> "sellUpdate", socket |-> c, orders |-> sellCoinOrders,
                         threw |-> run.threw]
    /\ UNCHANGED <<socketState, SHARES_FOR_ORDER_UPDATES>>
    /\ UNCHANGED <<adjustVars, routeVars, tradeVars>>

\* the buy market's feed delivers an order book to the callback of c's session
BuyFeedUpdate(c, buyCoinOrders) ==
    /\ FeedsLive(c)
    /\ LET run == buyLegUpdate(sessions[c][1].buyCoin, buyLegAmount(sessions, c),
                               buyCoinOrders)
       IN  /\ emitted' = Broadcast(run.events, c)
           /\ lastOp' = [op |-> "buyUpdate", socket |-> c, orders |-> buyCoinOrders,
                         threw |-> run.threw]
    /\ UNCHANGED <<socketState, SHARES_FOR_ORDER_UPDATES, sessions>>
    /\ UNCHANGED <<adjustVars, routeVars, tradeVars>>

\* a mutant: only the subscriptions of the calling client's session end
TerminateOwnSubscriptions(c) ==
    /\ socketState[c] = "connected"
    /\ sessions' = [sessions EXCEPT ![c] =
            IF HasSession(c) THEN Some([sessions[c][1] EXCEPT !.subscribed = FALSE])
            ELSE NoValue]
    /\ emitted' = <<>>
    /\ lastOp' = [op |-> "terminatePriorSockets", socket |-> c]
    /\ UNCHANGED <<socketState, SHARES_FOR_ORDER_UPDATES>>
    /\ UNCHANGED <<adjustVars, routeVars, tradeVars>>

\* socket.on('terminatePriorSockets'): every subscription of the process ends
TerminatePriorSockets(c) ==
    /\ socketState[c] = "connected"
    /\ sessions' = [d \in Sockets |->
            IF HasSession(d) THEN Some([sessions[d][1] EXCEPT !.subscribed = FALSE])
            ELSE NoValue]
    /\ emitted' = <<>>
    /\ lastOp' = [op |-> "terminatePriorSockets", socket |-> c]
    /\ UNCHANGED <<socketState, SHARES_FOR_ORDER_UPDATES>>
    /\ UNCHANGED <<adjustVars, routeVars, tradeVars>>

\* socket.on('disconnect'): a log line, nothing else
Disconnect(c) ==
    /\ socketState[c] = "connected"
    /\ socketState' = [socketState EXCEPT ![c] = "disconnected"]
    /\ emitted' = <<>>
    /\ lastOp' = [op |-> "disconnect", socket |-> c]
    /\ UNCHANGED <<SHARES_FOR_ORDER_UPDATES, sessions>>
    /\ UNCHANGED <<adjustVars, routeVars, tradeVars>>

(***************************************************************************)
(* app.post('/trade'): the settlement of the two legs and the savings.     *)
(***************************************************************************)
\* the greatest integer not above the finite number a
Floor(a) == a[1] \div a[2]

\* Math.round: the nearest integer, a half rounding towards +Infinity
MathRound(a) == IF ~IsFinite(a) THEN a ELSE Whole(Floor(Add(a, Num(1, 2))))

RECURSIVE Pow(_, _)
Pow(b, e) == IF e = 0 THEN 1 ELSE b * Pow(b, e - 1)

\* a mutant: the digits after the precision are cut off
numberToFixedTruncated(number, precision) ==
    LET pow == Whole(Pow(10, precision))
        scaled == Mul(number, pow)
    IN  IF ~IsFinite(scaled) THEN scaled
        ELSE Div(Whole(TruncDiv(scaled[1], scaled[2])), pow)

\* numberToFixed(number, precision): both callers leave base undefined, so the
\* power is taken of 10
numberToFixed(number, precision) ==
    LET pow == Whole(Pow(10, precision))
    IN  Div(MathRound(Mul(number, pow)), pow)

\* a mutant: one fee rate whatever the commission asset
commissionDecimalFlat(commissionAsset) == Num(1, 10000)

\* commissionAsset === 'BNB' ? 0.00005 : 0.0001
commissionDecimal(commissionAsset) ==
    IF commissionAsset = "BNB" THEN Num(5, 100000) ELSE Num(1, 10000)

RECURSIVE SumOver(_, _)
SumOver(fills, f) ==
    IF fills = <<>> THEN Zero
    ELSE Add(Head(fills)[f], SumOver(Tail(fills), f))

RECURSIVE SumOfAmounts(_)
SumOfAmounts(fills) ==
    IF fills = <<>> THEN Zero
    ELSE Add(Mul(Head(fills).price, Head(fills).qty), SumOfAmounts(Tail(fills)))

\* aggregateFilledTradesBinance (server/binance.js): the quantity-weighted
\* average price, the total quantity and the total commission of an order's
\* fills; an empty fill list is an error
aggregateFilledTradesBinance(fills) ==
    IF fills = <<>>
    THEN [error |-> "EmptyFillSet", price |-> NaN, qty |-> Zero, commission |-> Zero]
    ELSE [error |-> "none",
          price |-> Div(SumOfAmounts(fills), SumOver(fills, "qty")),
          qty |-> SumOver(fills, "qty"),
          commission |-> SumOver(fills, "commission")]

\* a mutant: an empty fill list is summed up like any other
settlementNeverThrows(res) == "none"

\* what the statements after an order returned throw: the aggregation's error, or
\* the TypeError of destructuring fills[0] of an empty list
settlementThrows(res) ==
    LET agg == aggregateFilledTradesBinance(res.fills)
    IN  IF agg.error # "none" THEN agg.error
        ELSE IF res.fills = <<>> THEN "TypeError"
        ELSE "none"

\* lines 360-371 and 403-411: the sale reported for the sell order's result
saleOf(sellRes) ==
    LET agg == aggregateFilledTradesBinance(sellRes.fills)
        sellCommissionAsset == sellRes.fills[1].commissionAsset
        sellCommissionDecimal == commissionDecimal(sellCommissionAsset)
        sellAmount == Mul(agg.qty, agg.price)
        sellTotal == Sub(sellAmount, Mul(sellAmount, sellCommissionDecimal))
    IN  [market |-> sellRes.symbol,
         price |-> agg.price,
         quantity |-> agg.qty,
         commission |-> agg.commission,
         commissionAsset |-> sellCommissionAsset,
         total |-> sellTotal,
         tradeId |-> sellRes.fills[1].tradeId]

\* lines 381-387 and 413-421: the purchase reported for the buy order's result
purchaseOf(buyRes) ==
    LET agg == aggregateFilledTradesBinance(buyRes.fills)
        buyCommissionAsset == buyRes.fills[1].commissionAsset
        buyCommissionDecimal == commissionDecimal(buyCommissionAsset)
        buyAmount == Mul(agg.qty, agg.price)
        buyTotal == Add(buyAmount, Mul(buyAmount, buyCommissionDecimal))
    IN  [market |-> buyRes.symbol,
         price |-> agg.price,
         quantity |-> agg.qty,
         commission |-> agg.commission,
         commissionAsset |-> buyCommissionAsset,
         total |-> buyTotal,
         tradeId |-> buyRes.fills[1].tradeId]

\* calculateUSDSavings, given the two prices it found
calculateUSDSavings(bestRoute, bestCoinPriceUSD, worstCoinPriceUSD) ==
    LET worstRoute == bestRoute.worstRoute
        bestSpread == Sub(bestRoute.sellCoin.averageSellPrice,
                          bestRoute.buyCoin.averageBuyPrice)
        worstSpread == Sub(worstRoute.averageSellPrice, worstRoute.averageBuyPrice)
        bestSpreadUSD == Mul(bestSpread, bestCoinPriceUSD)
        worstSpreadUSD == Mul(worstSpread, worstCoinPriceUSD)
    IN  numberToFixed(Sub(bestSpreadUSD, worstSpreadUSD), 4)

\* lines 392-400: the savings of a smart-routed trade
savingsOf(bestRoute, bestCoinPriceUSD, worstCoinPriceUSD, buyQuantity) ==
    LET USDSavings == calculateUSDSavings(bestRoute, bestCoinPriceUSD, worstCoinPriceUSD)
        totalUSDSavings == numberToFixed(Mul(USDSavings, buyQuantity), 4)
    IN  [USDSavings |-> USDSavings,
         totalUSDSavings |-> totalUSDSavings,
         bestBaseCoin |-> bestRoute.baseCoin.name,
         worstBaseCoin |-> bestRoute.worstRoute.baseCoin]

\* one fill of an order
Fill(price, qty, commissionAsset, tradeId) ==
    [price |-> Whole(price), qty |-> qty, commission |-> Num(1, 100),
     commissionAsset |-> commissionAsset, tradeId |-> tradeId]

\* an order quantity the exchange can fill
Fillable(quantity) == IsFinite(quantity) /\ Lt(Zero, quantity)

\* the fill lists a market sell order of a quantity can come back with: none,
\* one fill, or two fills at two prices (newOrderRespType FULL)
SellFills(quantity) ==
    IF ~Fillable(quantity) THEN {}
    ELSE LET half == Div(quantity, Whole(2))
         IN  {<<>>,
              <<Fill(10, quantity, "BNB", 11)>>,
              <<Fill(10, half, "BTC", 12), Fill(9, half, "BNB", 13)>>}

\* the fill lists a market buy order of a quantity can come back with
BuyFills(quantity) ==
    IF ~Fillable(quantity) THEN {}
    ELSE LET half == Div(quantity, Whole(2))
         IN  {<<>>,
              <<Fill(4, quantity, "NEO", 21)>>,
              <<Fill(4, half, "BNB", 22), Fill(5, half, "NEO", 23)>>}

\* the prices in USDT getPriceBinance can return for a bridge coin
PricesUSD == {Num(1, 10000), Whole(2)}

\* the bridgeCoins of a smart-routed trade request
TradeBridgeCoins ==
    {SubSeq(AllBridgeCoins, a, a + n - 1) : a \in 1..2, n \in 0..MaxBridge}

\* the order books the exchange returns while a trade is routed
TradeBidBooks == {<<<<10, 1>>, <<9, 4>>>>, <<<<12, 5>>>>}

TradeAskBooks == {<<<<4, 10>>>>}

\* the min steps the exchange returns while a trade is routed and settled
TradeStepsObjs ==
    [sellCoin : [minStep : {Num(1, StepDen)}],
     buyCoin : [minStep : {Zero, Num(1, StepDen), Whole(1)}]]

\* the buyCoin of a request body: the route the client last saw
TradeBodyBuyCoins ==
    {[name |-> BuyCoinName, market |-> BuyCoinName \o "BTC",
      averageBuyPrice |-> Whole(MaxPrice), sharesBuyable |-> Num(a, StepDen)] :
        a \in {MaxAmount - 1, MaxAmount}}

TradeBodySellCoin == [name |-> SellCoinName, market |-> SellCoinName \o "BTC"]

TradeLocalsInit ==
    [sellCoinSymbol |-> "", buyCoinSymbol |-> "", averageBuyPrice |-> NoValue,
     sharesBuyable |-> NoValue, buyCoinMinStep |-> NoValue, sellRes |-> NoValue,
     quantityToBuy |-> NoValue, buyRes |-> NoValue,
     bestCoinPriceUSD |-> NoValue, worstCoinPriceUSD |-> NoValue]

\* the catch block: res.status(404).end(err)
ErrorResponse(err) == Some([status |-> 404, error |-> err, trade |-> NoValue])

\* res.send(trade)
TradeResponse(trade) == Some([status |-> 200, error |-> "none", trade |-> Some(trade)])

\* the trade object of lines 403-427
SettledTrade(locals, savings) ==
    [sale |-> saleOf(locals.sellRes[1]),
     purchase |-> purchaseOf(locals.buyRes[1]),
     savings |-> savings]

\* POST /trade arrives.  With smartRouting the handler calls getBestRoute;
\* without, it takes the markets and sharesBuyable of the body and calls
\* getMinStepsBinance
PostTrade(smartRouting, shares, bridges, bodyBuyCoin) ==
    /\ tradePc = "idle"
    /\ routePc = "idle"
    /\ tradeReq' = Some([sellCoin |-> TradeBodySellCoin, buyCoin |-> bodyBuyCoin,
                         shares |-> Whole(shares), bridgeCoins |-> bridges,
                         smartRouting |-> smartRouting])
    /\ IF smartRouting
       THEN /\ tradePc' = "routing"
            /\ bridgeCoins' = bridges
            /\ sharesEntered' = Whole(shares)
            /\ routePc' = "mapping"
            /\ mapperState' = [i \in 1..Len(bridges) |-> "pending"]
            /\ fetched' = [i \in 1..Len(bridges) |-> NoValue]
            /\ possibleRoutes' = [i \in 1..Len(bridges) |-> NoValue]
            /\ UNCHANGED <<completed, sortedRoutes, bestRouteResult, routeError,
                           routeEmitted, tradeLocals>>
       ELSE /\ tradePc' = "minSteps"
            /\ tradeLocals' = [tradeLocals EXCEPT
                    !.sellCoinSymbol = TradeBodySellCoin.market,
                    !.buyCoinSymbol = bodyBuyCoin.market,
                    !.averageBuyPrice = Some(bodyBuyCoin.averageBuyPrice),
                    !.sharesBuyable = Some(bodyBuyCoin.sharesBuyable)]
            /\ UNCHANGED routeVars
    /\ UNCHANGED <<ordersPlaced, priceLookups, tradeResponse>>
    /\ UNCHANGED <<adjustVars, liveVars>>

\* getBestRoute's getMinStepsBinance returned: the adjusted best route is
\* returned to /trade, which takes the markets and sharesBuyable from it and
\* calls getMinStepsBinance
TradeBestRouteReturns(stepsObj) ==
    /\ tradePc = "routing"
    /\ routePc = "minSteps"
    /\ LET bestRoute == adjustedBestRouteOf(sortedRoutes, stepsObj)
       IN  /\ bestRouteResult' = Some(bestRoute)
           /\ tradeLocals' = [tradeLocals EXCEPT
                   !.sellCoinSymbol = bestRoute.sellCoin.market,
                   !.buyCoinSymbol = bestRoute.buyCoin.market,
                   !.averageBuyPrice = Some(bestRoute.buyCoin.averageBuyPrice),
                   !.sharesBuyable = Some(bestRoute.buyCoin.sharesBuyable)]
    /\ routePc' = "done"
    /\ tradePc' = "minSteps"
    /\ UNCHANGED <<bridgeCoins, sharesEntered, mapperState, fetched, possibleRoutes,
                   completed, sortedRoutes, routeError, routeEmitted>>
    /\ UNCHANGED <<tradeReq, ordersPlaced, priceLookups, tradeResponse>>
    /\ UNCHANGED <<adjustVars, liveVars>>

\* getBestRoute rejected: the catch block answers
TradeBestRouteRejects ==
    /\ tradePc = "routing"
    /\ routePc = "rejected"
    /\ tradePc' = "responded"
    /\ tradeResponse' = ErrorResponse(routeError)
    /\ UNCHANGED <<tradeReq, tradeLocals, ordersPlaced, priceLookups>>
    /\ UNCHANGED <<adjustVars, routeVars, liveVars>>

\* /trade's getMinStepsBinance returned: the sell order is sent
TradeMinStepsReturn(stepsObj) ==
    /\ tradePc = "minSteps"
    /\ tradeLocals' = [tradeLocals EXCEPT !.buyCoinMinStep = Some(stepsObj.buyCoin.minStep)]
    /\ ordersPlaced' = Append(ordersPlaced,
            [side |-> "SELL", symbol |-> tradeLocals.sellCoinSymbol,
             quantity |-> tradeReq[1].shares])
    /\ tradePc' = "selling"
    /\ UNCHANGED <<tradeReq, priceLookups, tradeResponse>>
    /\ UNCHANGED <<adjustVars, routeVars, liveVars>>

\* /trade's getMinStepsBinance failed
TradeMinStepsFail ==
    /\ tradePc = "minSteps"
    /\ tradePc' = "responded"
    /\ tradeResponse' = ErrorResponse("MinStepsUnavailable")
    /\ UNCHANGED <<tradeReq, tradeLocals, ordersPlaced, priceLookups>>
    /\ UNCHANGED <<adjustVars, routeVars, liveVars>>

\* the answer to a smart-routed trade once both bridge prices are known
SmartTradeResponse(locals) ==
    TradeResponse(SettledTrade(locals,
        Some(savingsOf(bestRouteResult[1], locals.bestCoinPriceUSD[1],
                       locals.worstCoinPriceUSD[1],
                       purchaseOf(locals.buyRes[1]).quantity))))

\* the sell order returned: the sale is summed up, the quantity to buy is
\* sharesBuyable adjusted to the min step, and the buy order is sent.  An empty
\* fill list throws before the buy order
SellOrderReturns(fills) ==
    /\ tradePc = "selling"
    /\ LET sellRes == [symbol |-> tradeLocals.sellCoinSymbol, fills |-> fills]
           threw == settlementThrows(sellRes)
           quantity == tradeQuantityToBuy(tradeLocals.sharesBuyable[1],
                                          tradeLocals.buyCoinMinStep[1])
       IN  IF threw # "none"
           THEN /\ tradeLocals' = [tradeLocals EXCEPT !.sellRes = Some(sellRes)]
                /\ tradePc' = "responded"
                /\ tradeResponse' = ErrorResponse(threw)
                /\ UNCHANGED ordersPlaced
           ELSE /\ tradeLocals' = [tradeLocals EXCEPT !.sellRes = Some(sellRes),
                                                     !.quantityToBuy = Some(quantity)]
                /\ ordersPlaced' = Append(ordersPlaced,
                        [side |-> "BUY", symbol |-> tradeLocals.buyCoinSymbol,
                         quantity |-> quantity])
                /\ tradePc' = "buying"
                /\ UNCHANGED tradeResponse
    /\ UNCHANGED <<tradeReq, priceLookups>>
    /\ UNCHANGED <<adjustVars, routeVars, liveVars>>

\* a mutant: a rejected sell order is passed over and the buy order is sent
SellOrderRejectsBuysAnyway ==
    /\ tradePc = "selling"
    /\ ordersPlaced' = Append(ordersPlaced,
            [side |-> "BUY", symbol |-> tradeLocals.buyCoinSymbol,
             quantity |-> tradeQuantityToBuy(tradeLocals.sharesBuyable[1],
                                             tradeLocals.buyCoinMinStep[1])])
    /\ tradePc' = "responded"
    /\ tradeResponse' = ErrorResponse("OrderRejected")
    /\ UNCHANGED <<tradeReq, tradeLocals, priceLookups>>
    /\ UNCHANGED <<adjustVars, routeVars, liveVars>>

\* the exchange rejected the sell order: the catch block answers
SellOrderRejects ==
    /\ tradePc = "selling"
    /\ tradePc' = "responded"
    /\ tradeResponse' = ErrorResponse("OrderRejected")
    /\ UNCHANGED <<tradeReq, tradeLocals, ordersPlaced, priceLookups>>
    /\ UNCHANGED <<adjustVars, routeVars, liveVars>>

\* the buy order returned: the purchase is summed up; a smart-routed trade then
\* runs calculateUSDSavings, which looks up the price of each bridge coin that
\* is not USDT, the best route's first
BuyOrderReturns(fills) ==
    /\ tradePc = "buying"
    /\ LET buyRes == [symbol |-> tradeLocals.buyCoinSymbol, fills |-> fills]
           threw == settlementThrows(buyRes)
           locals == [tradeLocals EXCEPT !.buyRes = Some(buyRes)]
           usdt == [locals EXCEPT !.bestCoinPriceUSD = Some(Whole(1))]
           both == [usdt EXCEPT !.worstCoinPriceUSD = Some(Whole(1))]
       IN  IF threw # "none"
           THEN /\ tradeLocals' = locals
                /\ tradePc' = "responded"
                /\ tradeResponse' = ErrorResponse(threw)
                /\ UNCHANGED priceLookups
           ELSE IF ~tradeReq[1].smartRouting
           THEN /\ tradeLocals' = locals
                /\ tradePc' = "responded"
                /\ tradeResponse' = TradeResponse(SettledTrade(locals, NoValue))
                /\ UNCHANGED priceLookups
           ELSE IF bestRouteResult[1].baseCoin.name # "USDT"
           THEN /\ tradeLocals' = locals
                /\ tradePc' = "bestPrice"
                /\ priceLookups' =
                      Append(priceLookups, bestRouteResult[1].baseCoin.name \o "USDT")
                /\ UNCHANGED tradeResponse
           ELSE IF bestRouteResult[1].worstRoute.baseCoin # "USDT"
           THEN /\ tradeLocals' = usdt
                /\ tradePc' = "worstPrice"
                /\ priceLookups' =
                      Append(priceLookups, bestRouteResult[1].worstRoute.baseCoin \o "USDT")
                /\ UNCHANGED tradeResponse
           ELSE /\ tradeLocals' = both
                /\ tradePc' = "responded"
                /\ tradeResponse' = SmartTradeResponse(both)
                /\ UNCHANGED priceLookups
    /\ UNCHANGED <<tradeReq, ordersPlaced>>
    /\ UNCHANGED <<adjustVars, routeVars, liveVars>>

\* a mutant: a rejected buy order is sent once more
BuyOrderRejectsAndRetries ==
    /\ tradePc = "buying"
    /\ ordersPlaced' = Append(ordersPlaced, ordersPlaced[Len(ordersPlaced)])
    /\ tradePc' = "responded"
    /\ tradeResponse' = ErrorResponse("OrderRejected")
    /\ UNCHANGED <<tradeReq, tradeLocals, priceLookups>>
    /\ UNCHANGED <<adjustVars, routeVars, liveVars>>

\* the exchange rejected the buy order: the catch block answers
BuyOrderRejects ==
    /\ tradePc = "buying"
    /\ tradePc' = "responded"
    /\ tradeResponse' = ErrorResponse("OrderRejected")
    /\ UNCHANGED <<tradeReq, tradeLocals, ordersPlaced, priceLookups>>
    /\ UNCHANGED <<adjustVars, routeVars, liveVars>>

\* getPriceBinance returned the price of the best route's bridge coin
BestPriceReturns(price) ==
    /\ tradePc = "bestPrice"
    /\ LET locals == [tradeLocals EXCEPT !.bestCoinPriceUSD = Some(price)]
           both == [locals EXCEPT !.worstCoinPriceUSD = Some(Whole(1))]
       IN  IF bestRouteResult[1].worstRoute.baseCoin # "USDT"
           THEN /\ tradeLocals' = locals
                /\ tradePc' = "worstPrice"
                /\ priceLookups' =
                      Append(priceLookups, bestRouteResult[1].worstRoute.baseCoin \o "USDT")
                /\ UNCHANGED tradeResponse
           ELSE /\ tradeLocals' = both
                /\ tradePc' = "responded"
                /\ tradeResponse' = SmartTradeResponse(both)
                /\ UNCHANGED priceLookups
    /\ UNCHANGED <<tradeReq, ordersPlaced>>
    /\ UNCHANGED <<adjustVars, routeVars, liveVars>>

\* getPriceBinance returned the price of the worst route's bridge coin: the
\* trade is sent
WorstPriceReturns(price) ==
    /\ tradePc = "worstPrice"
    /\ LET both == [tradeLocals EXCEPT !.worstCoinPriceUSD = Some(price)]
       IN  /\ tradeLocals' = both
           /\ tradeResponse' = SmartTradeResponse(both)
    /\ tradePc' = "responded"
    /\ UNCHANGED <<tradeReq, ordersPlaced, priceLookups>>
    /\ UNCHANGED <<adjustVars, routeVars, liveVars>>

\* getPriceBinance failed after both orders were executed: the catch block answers
PriceLookupFails ==
    /\ tradePc \in {"bestPrice", "worstPrice"}
    /\ tradePc' = "responded"
    /\ tradeResponse' = ErrorResponse("PriceUnavailable")
    /\ UNCHANGED <<tradeReq, tradeLocals, ordersPlaced, priceLookups>>
    /\ UNCHANGED <<adjustVars, routeVars, liveVars>>

RouteIdle ==
    /\ bridgeCoins = <<>>
    /\ sharesEntered = Zero
    /\ routePc = "idle"
    /\ mapperState = <<>>
    /\ fetched = <<>>
    /\ possibleRoutes = <<>>
    /\ completed = <<>>
    /\ sortedRoutes = <<>>
    /\ bestRouteResult = NoValue
    /\ routeError = "none"
    /\ routeEmitted = NoValue

LiveIdle ==
    /\ socketState = [c \in Sockets |-> "none"]
    /\ SHARES_FOR_ORDER_UPDATES = [c \in Sockets |-> Zero]
    /\ sessions = [c \in Sockets |-> NoValue]
    /\ emitted = <<>>
    /\ lastOp = [op |-> "none"]

AdjustIdle ==
    /\ buyCoinArg = NoValue
    /\ adjustedBuyCoin = NoValue
    /\ quantityToBuy = NoValue

TradeIdle ==
    /\ tradeReq = NoValue
    /\ tradePc = "idle"
    /\ tradeLocals = TradeLocalsInit
    /\ ordersPlaced = <<>>
    /\ priceLookups = <<>>
    /\ tradeResponse = NoValue

InitAdjust ==
    /\ buyCoinArg \in BuyCoinArgs
    /\ adjustedBuyCoin = NoValue
    /\ quantityToBuy = NoValue
    /\ RouteIdle
    /\ LiveIdle
    /\ TradeIdle

NextAdjust == CallAdjustBuyCoin \/ TradeAdjustQuantity

SpecAdjust == InitAdjust /\ [][NextAdjust]_vars

InitRoute == AdjustIdle /\ RouteIdle /\ LiveIdle /\ TradeIdle

NextRoute ==
    \/ \E n \in 0..MaxBridge, shares \in 1..MaxShares : CallGetBestRoute(n, shares)
    \/ \E i \in Candidates, bids \in BidBooks, asks \in AskBooks :
          MapperFetchesResolve(i, [sellCoinBids |-> bids, buyCoinAsks |-> asks])
    \/ \E i \in Candidates : MapperFetchFails(i)
    \/ SortAndPickBest
    \/ \E stepsObj \in StepsObjs : MinStepsResolve(stepsObj)
    \/ MinStepsReject

SpecRoute == InitRoute /\ [][NextRoute]_vars

InitLive == AdjustIdle /\ RouteIdle /\ LiveIdle /\ TradeIdle

NextLive ==
    \/ \E c \in Sockets : Connect(c)
    \/ \E c \in Sockets : SubscribeToOrders(c)
    \/ \E c \in Sockets, shares \in 0..MaxShares : SharesUpdated(c, shares)
    \/ \E c \in Sockets, orders \in SellMarketOrders : SellFeedUpdate(c, orders)
    \/ \E c \in Sockets, orders \in BuyMarketOrders : BuyFeedUpdate(c, orders)
    \/ \E c \in Sockets : TerminatePriorSockets(c)
    \/ \E c \in Sockets : Disconnect(c)

SpecLive == InitLive /\ [][NextLive]_vars

\* the quantity of the order the exchange is working on
PendingQuantity ==
    IF ordersPlaced = <<>> THEN NaN ELSE ordersPlaced[Len(ordersPlaced)].quantity

InitTrade == AdjustIdle /\ RouteIdle /\ LiveIdle /\ TradeIdle

NextTrade ==
    \/ \E shares \in 1..MaxShares, bridges \in TradeBridgeCoins :
          PostTrade(TRUE, shares, bridges,
                    CHOOSE b \in TradeBodyBuyCoins : b.sharesBuyable = Num(MaxAmount, StepDen))
    \/ \E shares \in 1..MaxShares, bodyBuyCoin \in TradeBodyBuyCoins :
          PostTrade(FALSE, shares, <<>>, bodyBuyCoin)
    \/ \E i \in Candidates, bids \in TradeBidBooks, asks \in TradeAskBooks :
          MapperFetchesResolve(i, [sellCoinBids |-> bids, buyCoinAsks |-> asks])
    \/ \E i \in Candidates : MapperFetchFails(i)
    \/ SortAndPickBest
    \/ MinStepsReject
    \/ \E stepsObj \in TradeStepsObjs : TradeBestRouteReturns(stepsObj)
    \/ TradeBestRouteRejects
    \/ \E stepsObj \in TradeStepsObjs : TradeMinStepsReturn(stepsObj)
    \/ TradeMinStepsFail
    \/ \E fills \in SellFills(PendingQuantity) :
          SellOrderReturns(fills)
    \/ SellOrderRejects
    \/ \E fills \in BuyFills(PendingQuantity) :
          BuyOrderReturns(fills)
    \/ BuyOrderRejects
    \/ \E price \in PricesUSD : BestPriceReturns(price)
    \/ \E price \in PricesUSD : WorstPriceReturns(price)
    \/ PriceLookupFails

SpecTrade == InitTrade /\ [][NextTrade]_vars

(***************************************************************************)
(* Properties of the lot adjustment, checked under SpecAdjust.             *)
(***************************************************************************)
\* Q mod S for Q >= 0 and S > 0, by the floor of the quotient
FloorMod(q, s) == Sub(q, Mul(Whole((q[1] * s[2]) \div (q[2] * s[1])), s))

\* C9: for every buyable quantity Q = amountBuyable / averageBuyPrice and every
\* step S > 0, adjustBuyCoin returns as sharesBuyable the largest multiple of S
\* that does not exceed Q, leftOver = (Q mod S) x averageBuyPrice, and a leftOver
\* and an amountBuyable that add up to the amountBuyable it was given.
C9_LargestMultipleAndRoundTrip ==
    (adjustedBuyCoin # NoValue /\ Lt(Zero, buyCoinArg.minStep)) =>
        LET r == adjustedBuyCoin[1]
            Q == BuyableQuantity(buyCoinArg)
            S == buyCoinArg.minStep
        IN  /\ IsInteger(Div(r.sharesBuyable, S))
            /\ Le(r.sharesBuyable, Q)
            /\ Lt(Q, Add(r.sharesBuyable, S))
            /\ r.leftOver = Mul(FloorMod(Q, S), buyCoinArg.averageBuyPrice)
            /\ Add(r.leftOver, r.amountBuyable) = buyCoinArg.amountBuyable

\* adjustBuyCoin has cut a quantity that is no multiple of the step down to a
\* positive multiple of it, at a price other than 1
C9_Witness ==
    /\ adjustedBuyCoin # NoValue
    /\ Lt(Zero, buyCoinArg.minStep)
    /\ buyCoinArg.averageBuyPrice # Whole(1)
    /\ Lt(Zero, adjustedBuyCoin[1].leftOver)
    /\ Lt(Zero, adjustedBuyCoin[1].sharesBuyable)

\* C10: for a step size of zero adjustBuyCoin passes its input through
\* (sharesBuyable = Q, amountBuyable unchanged, leftOver = 0), and so does the
\* min-step adjustment of the quantity to buy in /trade.
C10_ZeroStepPassThrough ==
    (buyCoinArg.minStep = Zero) =>
        /\ adjustedBuyCoin # NoValue =>
              /\ adjustedBuyCoin[1].sharesBuyable = BuyableQuantity(buyCoinArg)
              /\ adjustedBuyCoin[1].amountBuyable = buyCoinArg.amountBuyable
              /\ adjustedBuyCoin[1].leftOver = Zero
        /\ quantityToBuy # NoValue =>
              quantityToBuy[1] = BuyableQuantity(buyCoinArg)

(***************************************************************************)
(* Properties of getBestRoute, checked under SpecRoute.                    *)
(***************************************************************************)
\* route a does not rank after route b: more sharesSellable, or as many and a
\* ratio at least as great
RanksBefore(a, b) ==
    \/ Lt(b.sellCoin.sharesSellable, a.sellCoin.sharesSellable)
    \/ /\ a.sellCoin.sharesSellable = b.sellCoin.sharesSellable
       /\ Le(b.ratio, a.ratio)

Ranked == routePc \in {"minSteps", "done"}

EvaluatedRoutes == {possibleRoutes[i][1] : i \in Candidates}

\* C1: for a non-empty set of evaluated candidates the route chosen as best has
\* the greatest sharesSellable and, among those, the greatest ratio, whatever the
\* ratios of routes with fewer sharesSellable; the worstRoute summary is taken
\* from a route that is last in the same ordering.
C1_BestAndWorstByLiquidityThenRatio ==
    Ranked =>
        /\ Len(sortedRoutes) = Len(bridgeCoins)
        /\ {sortedRoutes[j] : j \in 1..Len(sortedRoutes)} = EvaluatedRoutes
        /\ \A j, k \in 1..Len(sortedRoutes) :
              j < k => RanksBefore(sortedRoutes[j], sortedRoutes[k])
        /\ routePc = "done" =>
              LET best == bestRouteResult[1]
                  worst == best.worstRoute
              IN  /\ \A r \in EvaluatedRoutes :
                        \/ Lt(r.sellCoin.sharesSellable, best.sellCoin.sharesSellable)
                        \/ /\ r.sellCoin.sharesSellable = best.sellCoin.sharesSellable
                           /\ Le(r.ratio, best.ratio)
                  /\ \E w \in EvaluatedRoutes :
                        /\ \A r \in EvaluatedRoutes : RanksBefore(r, w)
                        /\ worst.baseCoin = w.baseCoin.name
                        /\ worst.averageSellPrice = w.sellCoin.averageSellPrice
                        /\ worst.averageBuyPrice = w.buyCoin.averageBuyPrice
                        /\ worst.sharesBuyable = w.buyCoin.sharesBuyable

\* a route was returned whose best candidate sells more shares than the worst
\* one at a smaller ratio
C1_Witness ==
    /\ routePc = "done"
    /\ Len(sortedRoutes) >= 2
    /\ Lt(sortedRoutes[Len(sortedRoutes)].sellCoin.sharesSellable,
          sortedRoutes[1].sellCoin.sharesSellable)
    /\ Lt(sortedRoutes[1].ratio, sortedRoutes[Len(sortedRoutes)].ratio)
    /\ bestRouteResult[1].baseCoin = sortedRoutes[1].baseCoin

\* C2: a candidate whose order-book fetch fails is left out of the ranking: once
\* every candidate has settled and at least one was evaluated, the evaluation
\* has not failed for the failed fetch.
C2_FailedFetchExcluded ==
    (/\ Candidates # {}
     /\ \A i \in Candidates : mapperState[i] # "pending"
     /\ \E i \in Candidates : mapperState[i] = "ok")
        => ~(routePc = "rejected" /\ routeError = "MarketUnavailable")

\* C8: the routes are ranked, and the min steps fetched, only when the fetches
\* of every candidate have returned, and the ranking is the one of the
\* candidates in the order of bridgeCoins, whatever order they completed in.
C8_RankAfterAllFetchesAnyOrder ==
    Ranked =>
        /\ \A i \in Candidates : mapperState[i] = "ok" /\ fetched[i] # NoValue
        /\ Len(completed) = Len(bridgeCoins)
        /\ sortedRoutes =
              SortRoutes([i \in Candidates |->
                  evaluateCandidate(bridgeCoins[i], fetched[i][1], sharesEntered)])
        /\ routePc = "done" =>
              bestRouteResult[1].baseCoin = sortedRoutes[1].baseCoin

\* a route was returned after the second candidate's fetches completed before
\* the first one's, for two candidates that tie on both keys
C8_Witness ==
    /\ routePc = "done"
    /\ Len(bridgeCoins) >= 2
    /\ completed[1] = 2
    /\ fetched[1] = fetched[2]
    /\ bestRouteResult[1].baseCoin.name = bridgeCoins[1]

\* the order books candidate i's two fetches returned
OrdersOf(i) == fetched[i][1]

\* C16: within one route evaluation each candidate's buy simulation is sized by
\* the saleTotal of the same candidate's sell simulation, and the candidate's
\* ratio is that sell simulation's averageSellPrice over that buy simulation's
\* averageBuyPrice; no figure of another candidate enters.
C16_BuyLegSizedByOwnSaleTotal ==
    \A i \in 1..Len(possibleRoutes) :
        possibleRoutes[i] # NoValue =>
            LET route == possibleRoutes[i][1]
                sell == calculateSellData(OrdersOf(i).sellCoinBids, sharesEntered)
                buy == calculateBuyData(OrdersOf(i).buyCoinAsks, sell.saleTotal)
            IN  /\ route.sellCoin.averageSellPrice = sell.averageSellPrice
                /\ route.sellCoin.sharesSellable = sell.sharesSellable
                /\ route.buyCoin.amountBuyable = buy.amountSpent
                /\ Le(route.buyCoin.amountBuyable, sell.saleTotal)
                /\ route.buyCoin.sharesBuyable = buy.sharesPossibleToBuy
                /\ route.buyCoin.averageBuyPrice = buy.averageBuyPrice
                /\ route.ratio = Div(sell.averageSellPrice, buy.averageBuyPrice)
                /\ route.sellCoin.market = SellCoinName \o bridgeCoins[i]
                /\ route.buyCoin.market = BuyCoinName \o bridgeCoins[i]

\* two candidates were evaluated whose sell legs raise different sale totals,
\* and each buy leg spends its own candidate's sale total
C16_Witness ==
    /\ Len(possibleRoutes) >= 2
    /\ possibleRoutes[1] # NoValue
    /\ possibleRoutes[2] # NoValue
    /\ LET s1 == calculateSellData(OrdersOf(1).sellCoinBids, sharesEntered).saleTotal
           s2 == calculateSellData(OrdersOf(2).sellCoinBids, sharesEntered).saleTotal
       IN  /\ s1 # s2
           /\ possibleRoutes[1][1].buyCoin.amountBuyable = s1
           /\ possibleRoutes[2][1].buyCoin.amountBuyable = s2
           /\ s1 # sharesEntered

(***************************************************************************)
(* Properties of the live sessions, checked under SpecLive.                *)
(***************************************************************************)
LastWasFeedUpdate == lastOp.op \in {"sellUpdate", "buyUpdate"}

\* C3: after a client disconnects, the feed handlers of its session are
\* deregistered: a feed update that arrives after the disconnect produces no
\* updateSellCoinInfo or updateBuyCoinInfo broadcast from that session.
C3_NoBroadcastAfterDisconnect ==
    (LastWasFeedUpdate /\ socketState[lastOp.socket] = "disconnected") =>
        emitted = <<>>

\* C4: with two live sessions that have different entered quantities, no client
\* receives a sell-leg or buy-leg event computed from the other session's
\* quantity or cached saleTotal.
C4_SessionIsolation ==
    (/\ \A c \in Sockets : socketState[c] = "connected" /\ FeedsLive(c)
     /\ \A c \in Sockets : SHARES_FOR_ORDER_UPDATES[c] # Zero
     /\ \E c, d \in Sockets : SHARES_FOR_ORDER_UPDATES[c] # SHARES_FOR_ORDER_UPDATES[d])
        => \A i \in 1..Len(emitted) : \A c \in emitted[i].to : c = emitted[i].session

\* C5: a buy-leg update computes the figures it broadcasts from the saleProceeds
\* its own session holds, leaves saleProceeds and every quantity unchanged, and
\* saleProceeds is 0 at subscription and changes only in a sell-leg update of
\* the same session.
C5_BuyLegUsesCachedSaleTotal ==
    [][/\ lastOp'.op = "buyUpdate" =>
             LET c == lastOp'.socket
             IN  /\ FeedsLive(c)
                 /\ sessions' = sessions
                 /\ SHARES_FOR_ORDER_UPDATES' = SHARES_FOR_ORDER_UPDATES
                 /\ emitted' = Broadcast(buyLegUpdate(sessions[c][1].buyCoin,
                                                      sessions[c][1].saleProceeds,
                                                      lastOp'.orders).events, c)
       /\ \A c \in Sockets :
             /\ (~HasSession(c) /\ sessions'[c] # NoValue) =>
                    sessions'[c][1].saleProceeds = Zero
             /\ (HasSession(c) /\ sessions'[c] # sessions[c]
                    /\ sessions'[c][1].saleProceeds # sessions[c][1].saleProceeds) =>
                    \/ lastOp'.op = "sellUpdate" /\ lastOp'.socket = c
                    \/ /\ lastOp'.op = "subscribeToOrders" /\ lastOp'.socket = c
                       /\ sessions'[c][1].saleProceeds = Zero
      ]_vars

\* a buy-leg update of c2's session broadcast figures while the two sessions
\* hold different, non-zero sale totals
C5_Witness ==
    /\ lastOp.op = "buyUpdate"
    /\ lastOp.socket = "c2"
    /\ emitted # <<>>
    /\ HasSession("c1")
    /\ sessions["c1"][1].saleProceeds # Zero
    /\ sessions["c2"][1].saleProceeds # sessions["c1"][1].saleProceeds

\* C6: every sell-leg feed update whose sell simulation returns figures stores
\* the saleTotal for the connection's current quantity and produces exactly one
\* updateSellCoinInfo broadcast, also when the asks side of the book is empty.
C6_EverySellUpdateBroadcasts ==
    (lastOp.op = "sellUpdate" /\ lastOp.threw # "DivisionByZero") =>
        /\ sessions[lastOp.socket][1].saleProceeds =
              calculateSellData(lastOp.orders.bids,
                                SHARES_FOR_ORDER_UPDATES[lastOp.socket]).saleTotal
        /\ Len(emitted) = 1
        /\ emitted[1].event = "updateSellCoinInfo"

\* C7: sharesUpdated stores the quantity of its connection and changes nothing
\* else: no saleProceeds changes and no event is emitted; a sell-leg update
\* computes from the quantity stored at that time, and a buy-leg update leaves
\* saleProceeds as the last sell-leg update stored it.
C7_SharesUpdatedOnlySetsQuantity ==
    [][/\ lastOp'.op = "sharesUpdated" =>
             /\ SHARES_FOR_ORDER_UPDATES' =
                   [SHARES_FOR_ORDER_UPDATES EXCEPT ![lastOp'.socket] = lastOp'.shares]
             /\ sessions' = sessions
             /\ socketState' = socketState
             /\ emitted' = <<>>
       /\ lastOp'.op = "sellUpdate" =>
             LET c == lastOp'.socket
                 run == sellLegUpdate(sessions[c][1].saleProceeds,
                                      SHARES_FOR_ORDER_UPDATES[c], lastOp'.orders)
             IN  /\ sessions'[c][1].saleProceeds = run.saleProceeds
                 /\ emitted' = Broadcast(run.events, c)
                 /\ SHARES_FOR_ORDER_UPDATES' = SHARES_FOR_ORDER_UPDATES
       /\ lastOp'.op = "buyUpdate" =>
             /\ sessions' = sessions
             /\ SHARES_FOR_ORDER_UPDATES' = SHARES_FOR_ORDER_UPDATES
      ]_vars

\* a buy-leg update broadcast figures from a saleProceeds that no sell-leg
\* update with the connection's present quantity could have stored: the
\* quantity was changed after the last sell-leg update
C7_Witness ==
    /\ lastOp.op = "buyUpdate"
    /\ emitted # <<>>
    /\ SHARES_FOR_ORDER_UPDATES[lastOp.socket] # Zero
    /\ \A orders \in SellMarketOrders :
          calculateSellData(orders.bids, SHARES_FOR_ORDER_UPDATES[lastOp.socket]).saleTotal
              # sessions[lastOp.socket][1].saleProceeds

\* C20: terminatePriorSockets from one client ends every feed subscription of
\* the process, those of other clients' sessions included; from then on a
\* session receives feed updates (and so broadcasts) only after a new
\* subscribeToOrders registered its feeds again; the stored quantities and the
\* cached sale totals of the sessions are left as they were.
C20_TerminateEndsEveryFeedKeepsState ==
    [][/\ lastOp'.op = "terminatePriorSockets" =>
             /\ \A d \in Sockets :
                   /\ ~(sessions'[d] # NoValue /\ sessions'[d][1].subscribed)
                   /\ (sessions'[d] # NoValue) = HasSession(d)
                   /\ HasSession(d) =>
                         /\ sessions'[d][1].saleProceeds = sessions[d][1].saleProceeds
                         /\ sessions'[d][1].buyCoin = sessions[d][1].buyCoin
             /\ SHARES_FOR_ORDER_UPDATES' = SHARES_FOR_ORDER_UPDATES
             /\ emitted' = <<>>
       /\ lastOp'.op \in {"sellUpdate", "buyUpdate"} => FeedsLive(lastOp'.socket)
       /\ \A d \in Sockets :
             (~FeedsLive(d) /\ sessions'[d] # NoValue /\ sessions'[d][1].subscribed)
                 => (lastOp'.op = "subscribeToOrders" /\ lastOp'.socket = d)
      ]_vars

\* one client terminated the subscriptions while another client's session had
\* a quantity and a cached sale total: that session's feeds are ended too
C20_Witness ==
    /\ lastOp.op = "terminatePriorSockets"
    /\ \E d \in Sockets \ {lastOp.socket} :
          /\ HasSession(d)
          /\ ~sessions[d][1].subscribed
          /\ sessions[d][1].saleProceeds # Zero
          /\ SHARES_FOR_ORDER_UPDATES[d] # Zero

(***************************************************************************)
(* Properties of /trade, checked under SpecTrade.                          *)
(***************************************************************************)
OrdersOfSide(side) == {k \in 1..Len(ordersPlaced) : ordersPlaced[k].side = side}

Responded == tradePc = "responded"

Failed == Responded /\ tradeResponse[1].status = 404

Settled == Responded /\ tradeResponse[1].status = 200

SellCompleted == tradeLocals.sellRes # NoValue /\ tradeLocals.sellRes[1].fills # <<>>

\* C11: one /trade request sends at most one market sell order and at most one
\* market buy order, whichever legs succeed or fail: a failed leg is not sent
\* again and no order is sent to undo a completed leg.
C11_AtMostOneOrderPerLeg ==
    /\ Cardinality(OrdersOfSide("SELL")) <= 1
    /\ Cardinality(OrdersOfSide("BUY")) <= 1
    /\ \A k \in OrdersOfSide("SELL") :
          /\ ordersPlaced[k].symbol = tradeLocals.sellCoinSymbol
          /\ ordersPlaced[k].quantity = tradeReq[1].shares
    /\ \A k \in OrdersOfSide("BUY") :
          ordersPlaced[k].symbol = tradeLocals.buyCoinSymbol

\* the buy order was rejected after the sell order was filled, and the request
\* was answered with these two orders sent and no other
C11_Witness ==
    /\ Failed
    /\ tradeResponse[1].error = "OrderRejected"
    /\ SellCompleted
    /\ Len(ordersPlaced) = 2

\* C12: when the buy order is rejected after the sell order completed, the
\* answer to /trade carries the completed sell leg as it is (market, price,
\* quantity, commission, trade id) together with the failure.
C12_CompletedSellLegReported ==
    (/\ Failed
     /\ tradeResponse[1].error = "OrderRejected"
     /\ SellCompleted
     /\ OrdersOfSide("BUY") # {})
        => /\ tradeResponse[1].trade # NoValue
           /\ tradeResponse[1].trade[1].sale = saleOf(tradeLocals.sellRes[1])

\* the trade that was sent
SentTrade == tradeResponse[1].trade[1]

\* C13: the fee rate of a leg is 0.00005 when the commission asset of that
\* leg's first fill is BNB and 0.0001 otherwise; the reported sale total is the
\* sell quantity times the sell price less that amount times the sell rate, and
\* the reported purchase total is the buy quantity times the buy price plus
\* that amount times the buy rate.
C13_FeeRatePerLegFromFirstFill ==
    Settled =>
        LET sale == SentTrade.sale
            purchase == SentTrade.purchase
            sellAsset == tradeLocals.sellRes[1].fills[1].commissionAsset
            buyAsset == tradeLocals.buyRes[1].fills[1].commissionAsset
            sellAmount == Mul(sale.quantity, sale.price)
            buyAmount == Mul(purchase.quantity, purchase.price)
        IN  /\ sale.commissionAsset = sellAsset
            /\ purchase.commissionAsset = buyAsset
            /\ sellAsset = "BNB" =>
                  sale.total = Sub(sellAmount, Mul(sellAmount, Num(5, 100000)))
            /\ sellAsset # "BNB" =>
                  sale.total = Sub(sellAmount, Mul(sellAmount, Num(1, 10000)))
            /\ buyAsset = "BNB" =>
                  purchase.total = Add(buyAmount, Mul(buyAmount, Num(5, 100000)))
            /\ buyAsset # "BNB" =>
                  purchase.total = Add(buyAmount, Mul(buyAmount, Num(1, 10000)))

\* a trade was sent whose sell leg paid its first fill's commission in the
\* bridge coin and a later one in BNB, and whose buy leg paid its first in BNB
C13_Witness ==
    /\ Settled
    /\ Len(tradeLocals.sellRes[1].fills) = 2
    /\ SentTrade.sale.commissionAsset # "BNB"
    /\ tradeLocals.sellRes[1].fills[2].commissionAsset = "BNB"
    /\ SentTrade.purchase.commissionAsset = "BNB"
    /\ Lt(SentTrade.sale.total, Mul(SentTrade.sale.quantity, SentTrade.sale.price))
    /\ Lt(Mul(SentTrade.purchase.quantity, SentTrade.purchase.price),
          SentTrade.purchase.total)

\* r is x rounded to 4 decimals, a half rounding up: r is a whole number of
\* ten-thousandths k with k - 1/2 <= 10000 x < k + 1/2
RoundsHalfUpTo4(x, r) ==
    LET k == Mul(r, Whole(10000))
        y == Mul(x, Whole(10000))
    IN  /\ IsInteger(k)
        /\ Le(Sub(k, Num(1, 2)), y)
        /\ Lt(y, Add(k, Num(1, 2)))

\* the bridge coins calculateUSDSavings has to look up, the best route's first
SymbolsToLookUp(bestRoute) ==
    (IF bestRoute.baseCoin.name = "USDT" THEN <<>>
     ELSE <<bestRoute.baseCoin.name \o "USDT">>)
    \o (IF bestRoute.worstRoute.baseCoin = "USDT" THEN <<>>
        ELSE <<bestRoute.worstRoute.baseCoin \o "USDT">>)

SmartSettled == Settled /\ tradeReq[1].smartRouting

\* C14: the savings per share are bestSpread x bestBridgeUSD - worstSpread x
\* worstBridgeUSD, each spread a route's averageSellPrice less its
\* averageBuyPrice and the factor of the bridge USDT being 1 without a price
\* lookup, rounded to 4 decimals with a half rounding up; the total savings are
\* that figure times the bought quantity, rounded the same way.  Spreads of 2
\* and 1 at a bridge price of 1 give 1.0000.
C14_SavingsRoundedHalfUp ==
    /\ SmartSettled =>
          LET bestRoute == bestRouteResult[1]
              worstRoute == bestRoute.worstRoute
              savings == SentTrade.savings[1]
              bestSpread == Sub(bestRoute.sellCoin.averageSellPrice,
                                bestRoute.buyCoin.averageBuyPrice)
              worstSpread == Sub(worstRoute.averageSellPrice, worstRoute.averageBuyPrice)
              bestFactor == IF bestRoute.baseCoin.name = "USDT" THEN Whole(1)
                            ELSE tradeLocals.bestCoinPriceUSD[1]
              worstFactor == IF worstRoute.baseCoin = "USDT" THEN Whole(1)
                             ELSE tradeLocals.worstCoinPriceUSD[1]
              exact == Sub(Mul(bestSpread, bestFactor), Mul(worstSpread, worstFactor))
          IN  /\ RoundsHalfUpTo4(exact, savings.USDSavings)
              /\ RoundsHalfUpTo4(Mul(savings.USDSavings, SentTrade.purchase.quantity),
                                 savings.totalUSDSavings)
              /\ priceLookups = SymbolsToLookUp(bestRoute)
    /\ numberToFixed(Sub(Mul(Whole(2), Whole(1)), Mul(Whole(1), Whole(1))), 4) = Whole(1)

\* a smart-routed trade was sent whose best bridge is USDT and whose worst is
\* not, and whose exact savings per share end in a half ten-thousandth that was
\* rounded up
C14_Witness ==
    /\ SmartSettled
    /\ bestRouteResult[1].baseCoin.name = "USDT"
    /\ bestRouteResult[1].worstRoute.baseCoin # "USDT"
    /\ Len(priceLookups) = 1
    /\ LET bestRoute == bestRouteResult[1]
           worstRoute == bestRoute.worstRoute
           exact == Sub(Sub(bestRoute.sellCoin.averageSellPrice,
                            bestRoute.buyCoin.averageBuyPrice),
                        Mul(Sub(worstRoute.averageSellPrice, worstRoute.averageBuyPrice),
                            tradeLocals.worstCoinPriceUSD[1]))
       IN  Sub(SentTrade.savings[1].USDSavings, exact) = Num(1, 20000)

\* C15: a sell order that comes back with no fills makes /trade fail: an error
\* is answered, no trade is sent and no buy order is placed; a buy order that
\* comes back with no fills makes /trade fail likewise.
C15_EmptyFillsFailTheTrade ==
    /\ (tradeLocals.sellRes # NoValue /\ tradeLocals.sellRes[1].fills = <<>>) =>
          /\ Failed
          /\ tradeResponse[1].trade = NoValue
          /\ OrdersOfSide("BUY") = {}
          /\ tradeLocals.buyRes = NoValue
    /\ (tradeLocals.buyRes # NoValue /\ tradeLocals.buyRes[1].fills = <<>>) =>
          /\ Failed
          /\ tradeResponse[1].trade = NoValue

\* the sell order of a request came back with no fills and the request was
\* answered with the error, the sell order being the only order sent
C15_Witness ==
    /\ tradeLocals.sellRes # NoValue
    /\ tradeLocals.sellRes[1].fills = <<>>
    /\ Failed
    /\ tradeResponse[1].error \in {"EmptyFillSet", "TypeError"}
    /\ Len(ordersPlaced) = 1

\* C17: when exactly one bridge candidate is evaluated, the best and the worst
\* route are the same route: worstRoute.baseCoin is the best route's
\* baseCoin.name and the worst route's prices are the best route's, so the
\* savings per share computed from the result are 0.
C17_SingleCandidateSavesNothing ==
    (Len(bridgeCoins) = 1 /\ routePc = "done") =>
        LET bestRoute == bestRouteResult[1]
        IN  /\ bestRoute.worstRoute.baseCoin = bestRoute.baseCoin.name
            /\ bestRoute.worstRoute.averageSellPrice = bestRoute.sellCoin.averageSellPrice
            /\ bestRoute.worstRoute.averageBuyPrice = bestRoute.buyCoin.averageBuyPrice
            /\ SmartSettled => SentTrade.savings[1].USDSavings = Zero

\* C18: the quantity of the buy order of /trade is derived from the aggregated
\* result of the executed sell order: the sale proceeds after commission, at
\* the route's averageBuyPrice, adjusted down to the buy market's min step.
C18_BuyQuantityFromSaleProceeds ==
    \A k \in OrdersOfSide("BUY") :
        ordersPlaced[k].quantity =
            tradeQuantityToBuy(Div(saleOf(tradeLocals.sellRes[1]).total,
                                   tradeLocals.averageBuyPrice[1]),
                               tradeLocals.buyCoinMinStep[1])

\* C19: the legs of /trade are strictly ordered.  The buy order is sent only
\* after the sell order came back filled; the route evaluation (for a
\* smart-routed trade) and the min-step fetch are complete before the sell
\* order is sent; a failed route evaluation or min-step fetch leaves no order
\* sent, and a failed sell order leaves no buy order sent.
C19_LegsStrictlyOrdered ==
    /\ \A k \in OrdersOfSide("BUY") :
          /\ SellCompleted
          /\ k = 2
          /\ ordersPlaced[1].side = "SELL"
    /\ ordersPlaced # <<>> =>
          /\ ordersPlaced[1].side = "SELL"
          /\ tradeLocals.buyCoinMinStep # NoValue
          /\ tradeReq[1].smartRouting =>
                (routePc = "done" /\ bestRouteResult # NoValue)
    /\ (Failed /\ tradeLocals.buyCoinMinStep = NoValue) => ordersPlaced = <<>>
    /\ (Failed /\ tradeReq[1].smartRouting /\ routePc # "done") => ordersPlaced = <<>>
    /\ (Failed /\ ~SellCompleted) => OrdersOfSide("BUY") = {}

\* a smart-routed trade went through: its route was evaluated, its min steps
\* fetched, its sell order filled and then its buy order filled
C19_Witness ==
    /\ SmartSettled
    /\ routePc = "done"
    /\ Len(bridgeCoins) >= 2
    /\ Len(ordersPlaced) = 2
    /\ ordersPlaced[1].side = "SELL"
    /\ ordersPlaced[2].side = "BUY"

====
